---- MODULE Spec2Model ----
(***************************************************************************)
(* Model of meshopt-rs src/encoding.rs: the index/vertex buffer encode and *)
(* decode wrappers and the quantization helpers.                           *)
(*                                                                         *)
(* The wrappers call into the codec through ffi::meshopt_*; those          *)
(* functions, error_or and rcp_safe live outside src/encoding.rs and are   *)
(* rendered here from the written specification (sections 4.1, 4.2, 4.3,   *)
(* 7).  Everything else is a transcription of encoding.rs.                 *)
(***************************************************************************)
EXTENDS Integers, Sequences, FiniteSets, TLC

VARIABLES pc, fn, arg, loc, ret, src

vars == <<pc, fn, arg, loc, ret, src>>

----------------------------------------------------------------------------
(* Bounds of the model.                                                    *)

\* largest number of triangles in an index list handed to encode_index_buffer
MaxTriangles == 2
\* largest number of records in a vertex stream handed to encode_vertex_buffer
MaxRecords == 3
\* longest hand-made (untrusted) byte sequence handed to a decoder
MaxBlobLen == 3
\* largest element count handed to a decoder together with untrusted bytes
MaxCount == 4
\* largest number of whole 3-component points in a position list
MaxPoints == 2
\* largest number of whole 2-component coordinates in a UV list
MaxCoords == 3

\* vertex counts tried by encode_index_buffer callers (indices are < vertex_count)
VertexCounts == {1, 3, 4}
\* byte values the vertex records are built from
ByteSamples == {0, 1, 255}
\* element widths (size_of::<T>()) tried by decode_index_buffer callers
IndexWidths == {1, 2, 4, 8}
\* byte values the untrusted blobs are built from
BlobSamples == {0, 15, 160, 224, 255}

----------------------------------------------------------------------------
(* Small helpers over sequences.                                           *)

Min(a, b) == IF a <= b THEN a ELSE b

Max(a, b) == IF a >= b THEN a ELSE b

\* vec![fill; n]
Fill(n, fill) == [k \in 1..n |-> fill]

\* Vec::resize(n, fill): truncates when n <= len, grows with fill otherwise
Resize(v, n, fill) ==
    IF n <= Len(v) THEN SubSeq(v, 1, n) ELSE v \o Fill(n - Len(v), fill)

\* a write of bytes `w` at the start of buffer `buf` (Len(w) <= Len(buf))
WriteAt0(buf, w) == w \o SubSeq(buf, Len(w) + 1, Len(buf))

\* all sequences over S of length exactly n
SeqsOfLen(S, n) == [1..n -> S]

\* all sequences over S of length at most n
SeqsUpTo(S, n) == UNION {SeqsOfLen(S, k) : k \in 0..n}

----------------------------------------------------------------------------
(* Index codec (ffi::meshopt_encodeIndexBufferBound, _encodeIndexBuffer,   *)
(* _decodeIndexBuffer), after section 4.1: a format tag byte, then per     *)
(* triangle one code byte (edge slot in the high nibble, code of the first *)
(* explicitly coded vertex in the low nibble) followed by literal deltas   *)
(* and the codes of the remaining vertices.                                *)

\* version/format tag byte the index blob begins with
kIndexHeader == 224
\* capacity of the edge table
kEdgeFifoSize == 4
\* capacity of the vertex FIFO
kVertexFifoSize == 2
\* high nibble: the triangle shares no edge with the edge table
kNoEdge == 15
\* vertex code: a literal delta byte follows
kLiteral == 15
\* worst case bytes per triangle: code byte, two more vertex codes, three literals
kIndexTriangleBound == 6

\* 0-based slot of the first (lowest) entry equal to x, -1 when absent
FifoFind(fifo, x) ==
    IF \E k \in 1..Len(fifo) : fifo[k] = x
    THEN (CHOOSE k \in 1..Len(fifo) :
            fifo[k] = x /\ \A j \in 1..(k - 1) : fifo[j] # x) - 1
    ELSE -1

\* push to the front, dropping the oldest entry beyond the capacity
FifoPush(fifo, x, cap) == SubSeq(<<x>> \o fifo, 1, Min(cap, Len(fifo) + 1))

\* the three edges of triangle (a, b, c) as seen from a neighbour
PushEdges(edgefifo, a, b, c) ==
    FifoPush(FifoPush(FifoPush(edgefifo, <<b, a>>, kEdgeFifoSize),
                      <<c, b>>, kEdgeFifoSize),
             <<a, c>>, kEdgeFifoSize)

\* one vertex: a FIFO hit is a short code, a miss is a literal delta to `last`
EncodeVertex(v, st) ==
    LET f == FifoFind(st.vfifo, v) IN
    IF f >= 0
    THEN [code |-> f, extra |-> <<>>, vfifo |-> st.vfifo, last |-> st.last]
    ELSE [code |-> kLiteral, extra |-> <<(v - st.last) % 256>>,
          vfifo |-> FifoPush(st.vfifo, v, kVertexFifoSize), last |-> v]

\* one triangle: the bytes it codes to and the tables after it
EncodeTriangle(a, b, c, st) ==
    LET e == FifoFind(st.efifo, <<a, b>>) IN
    IF e >= 0
    THEN LET vc == EncodeVertex(c, st) IN
         [bytes |-> <<e * 16 + vc.code>> \o vc.extra,
          st |-> [efifo |-> PushEdges(st.efifo, a, b, c),
                  vfifo |-> vc.vfifo, last |-> vc.last]]
    ELSE LET va == EncodeVertex(a, st)
             vb == EncodeVertex(b, [st EXCEPT !.vfifo = va.vfifo, !.last = va.last])
             vc == EncodeVertex(c, [st EXCEPT !.vfifo = vb.vfifo, !.last = vb.last])
         IN [bytes |-> <<kNoEdge * 16 + va.code>> \o va.extra
                        \o <<vb.code>> \o vb.extra \o <<vc.code>> \o vc.extra,
             st |-> [efifo |-> PushEdges(st.efifo, a, b, c),
                     vfifo |-> vc.vfifo, last |-> vc.last]]

\* the prediction tables at the start of every call
IndexTables0 == [efifo |-> <<>>, vfifo |-> <<>>, last |-> 0]

RECURSIVE EncodeTriangles(_, _, _)
\* triangles i, i+3, ... of `indices`, in input order
EncodeTriangles(indices, i, st) ==
    IF i + 2 > Len(indices) THEN <<>>
    ELSE LET t == EncodeTriangle(indices[i], indices[i + 1], indices[i + 2], st)
         IN t.bytes \o EncodeTriangles(indices, i + 3, t.st)

\* meshopt_encodeIndexBufferBound(index_count, vertex_count)
meshopt_encodeIndexBufferBound(index_count, vertex_count) ==
    1 + (index_count \div 3) * kIndexTriangleBound

\* the bytes meshopt_encodeIndexBuffer produces for `indices`
IndexBlob(indices) == <<kIndexHeader>> \o EncodeTriangles(indices, 1, IndexTables0)

\* meshopt_encodeIndexBuffer(buffer, buffer_size, indices, index_count):
\* the buffer after the call and the size returned (0: buffer too small)
meshopt_encodeIndexBuffer(buffer, buffer_size, indices) ==
    LET blob == IndexBlob(indices) IN
    IF Len(blob) > buffer_size
    THEN [buffer |-> buffer, size |-> 0]
    ELSE [buffer |-> WriteAt0(buffer, blob), size |-> Len(blob)]

\* bounds-checked read at 1-based position p: 0 beyond the end of the slice
ReadByte(data, p) == IF p >= 1 /\ p <= Len(data) THEN data[p] ELSE 0

\* one vertex from its code; p is the position of the next unread byte
DecodeVertex(code, data, p, st) ==
    IF code = kLiteral
    THEN LET v == (st.last + ReadByte(data, p)) % 256 IN
         [v |-> v, p |-> p + 1,
          vfifo |-> FifoPush(st.vfifo, v, kVertexFifoSize), last |-> v]
    ELSE [v |-> IF code < Len(st.vfifo) THEN st.vfifo[code + 1] ELSE 0,
          p |-> p, vfifo |-> st.vfifo, last |-> st.last]

\* one triangle starting at position p
DecodeTriangle(data, p, st) ==
    LET code == ReadByte(data, p)
        e == code \div 16
    IN
    IF e < kNoEdge
    THEN LET edge == IF e < Len(st.efifo) THEN st.efifo[e + 1] ELSE <<0, 0>>
             vc == DecodeVertex(code % 16, data, p + 1, st)
         IN [tri |-> <<edge[1], edge[2], vc.v>>, p |-> vc.p,
             st |-> [efifo |-> PushEdges(st.efifo, edge[1], edge[2], vc.v),
                     vfifo |-> vc.vfifo, last |-> vc.last]]
    ELSE LET va == DecodeVertex(code % 16, data, p + 1, st)
             vb == DecodeVertex(ReadByte(data, va.p) % 16, data, va.p + 1,
                                [st EXCEPT !.vfifo = va.vfifo, !.last = va.last])
             vc == DecodeVertex(ReadByte(data, vb.p) % 16, data, vb.p + 1,
                                [st EXCEPT !.vfifo = vb.vfifo, !.last = vb.last])
         IN [tri |-> <<va.v, vb.v, vc.v>>, p |-> vc.p,
             st |-> [efifo |-> PushEdges(st.efifo, va.v, vb.v, vc.v),
                     vfifo |-> vc.vfifo, last |-> vc.last]]

RECURSIVE DecodeTriangles(_, _, _, _)
\* n triangles starting at position p
DecodeTriangles(data, p, st, n) ==
    IF n = 0 THEN <<>>
    ELSE LET t == DecodeTriangle(data, p, st)
         IN t.tri \o DecodeTriangles(data, t.p, t.st, n - 1)

\* an index written into an output element of index_size bytes
\* (the indices of the model stay below 2^16, so 4 and more bytes hold them whole)
StoreIndex(v, index_size) == IF index_size >= 4 THEN v ELSE v % (2 ^ (8 * index_size))

\* meshopt_decodeIndexBuffer(destination, index_count, index_size, buffer, buffer_size):
\* the destination after the call and the result code (0: success)
meshopt_decodeIndexBuffer(destination, index_count, index_size, buffer) ==
    IF Len(buffer) < 1 \/ buffer[1] # kIndexHeader
    THEN [destination |-> destination, code |-> -1]
    ELSE LET out == DecodeTriangles(buffer, 2, IndexTables0, index_count \div 3)
         IN [destination |->
                [k \in 1..Len(destination) |->
                    IF k <= Len(out) THEN StoreIndex(out[k], index_size)
                    ELSE destination[k]],
             code |-> 0]

----------------------------------------------------------------------------
(* Vertex codec (ffi::meshopt_encodeVertexBufferBound, _encodeVertexBuffer,*)
(* _decodeVertexBuffer), after section 4.2: a format tag byte, then per    *)
(* block of records and per byte channel a selector byte and the channel's *)
(* deltas to the previous record, packed at the selected bit width.  A     *)
(* stream of n records of vertex_size bytes is the flat sequence of its    *)
(* n * vertex_size bytes, as the codec sees it through the raw pointer.    *)

\* version/format tag byte the vertex blob begins with
kVertexHeader == 160
\* records per block
kVertexBlockSize == 2
\* the ladder of bit widths; the last rung holds literal bytes
kBitsLadder == <<0, 2, 4, 8>>

\* byte of channel k (1-based) of record r (1-based)
RecordByte(data, vertex_size, r, k) == data[(r - 1) * vertex_size + k]

\* record r as a sequence of vertex_size bytes
Record(data, vertex_size, r) ==
    [k \in 1..vertex_size |-> RecordByte(data, vertex_size, r, k)]

\* channel k of the n records after record b0
Column(data, vertex_size, b0, n, k) ==
    [j \in 1..n |-> RecordByte(data, vertex_size, b0 + j, k)]

\* deltas of a channel's column to the previous record, channel-wise
Deltas(col, prevbyte) ==
    [j \in 1..Len(col) |->
        (col[j] - (IF j = 1 THEN prevbyte ELSE col[j - 1])) % 256]

\* lowest rung of the ladder that covers every delta (0-based selector)
SelectBits(ds) ==
    CHOOSE s \in 0..3 :
        /\ \A j \in 1..Len(ds) : ds[j] < 2 ^ kBitsLadder[s + 1]
        /\ \A t \in 0..(s - 1) : \E j \in 1..Len(ds) : ds[j] >= 2 ^ kBitsLadder[t + 1]

\* number of bytes n values of `bits` bits pack into
PackedLen(n, bits) == (n * bits + 7) \div 8

RECURSIVE PackByte(_, _, _, _)
\* the byte holding values j, j+1, ... of ds up to index hi, lowest bits first
PackByte(ds, bits, j, hi) ==
    IF j > hi \/ j > Len(ds) THEN 0
    ELSE ds[j] + (2 ^ bits) * PackByte(ds, bits, j + 1, hi)

\* the deltas packed at `bits` bits each
PackBits(ds, bits) ==
    IF bits = 0 THEN <<>>
    ELSE LET per == 8 \div bits IN
         [m \in 1..PackedLen(Len(ds), bits) |->
            PackByte(ds, bits, (m - 1) * per + 1, m * per)]

\* one channel of one block: selector, then the packed deltas
EncodeChannel(col, prevbyte) ==
    LET ds == Deltas(col, prevbyte)
        s == SelectBits(ds)
    IN <<s>> \o PackBits(ds, kBitsLadder[s + 1])

RECURSIVE EncodeChannels(_, _, _, _, _, _)
\* channels k..vertex_size of the block of n records after record b0
EncodeChannels(data, vertex_size, b0, n, prev, k) ==
    IF k > vertex_size THEN <<>>
    ELSE EncodeChannel(Column(data, vertex_size, b0, n, k), prev[k])
         \o EncodeChannels(data, vertex_size, b0, n, prev, k + 1)

RECURSIVE EncodeBlocks(_, _, _, _, _)
\* the blocks after record b0; prev is the record before the block
EncodeBlocks(data, vertex_size, vertex_count, b0, prev) ==
    IF b0 >= vertex_count THEN <<>>
    ELSE LET n == Min(kVertexBlockSize, vertex_count - b0) IN
         EncodeChannels(data, vertex_size, b0, n, prev, 1)
         \o EncodeBlocks(data, vertex_size, vertex_count, b0 + n,
                         Record(data, vertex_size, b0 + n))

\* meshopt_encodeVertexBufferBound(vertex_count, vertex_size)
meshopt_encodeVertexBufferBound(vertex_count, vertex_size) ==
    1 + ((vertex_count + kVertexBlockSize - 1) \div kVertexBlockSize)
        * vertex_size * (1 + kVertexBlockSize)

\* the bytes meshopt_encodeVertexBuffer produces for a stream
VertexBlob(vertices, vertex_count, vertex_size) ==
    <<kVertexHeader>>
    \o EncodeBlocks(vertices, vertex_size, vertex_count, 0, Fill(vertex_size, 0))

\* meshopt_encodeVertexBuffer(buffer, buffer_size, vertices, vertex_count, vertex_size):
\* the buffer after the call and the size returned (0: buffer too small)
meshopt_encodeVertexBuffer(buffer, buffer_size, vertices, vertex_count, vertex_size) ==
    LET blob == VertexBlob(vertices, vertex_count, vertex_size) IN
    IF Len(blob) > buffer_size
    THEN [buffer |-> buffer, size |-> 0]
    ELSE [buffer |-> WriteAt0(buffer, blob), size |-> Len(blob)]

\* value j (1-based) of a run packed at `bits` bits starting at position p
UnpackDelta(data, p, bits, j) ==
    IF bits = 0 THEN 0
    ELSE LET per == 8 \div bits IN
         (ReadByte(data, p + ((j - 1) \div per)) \div (2 ^ (bits * ((j - 1) % per))))
            % (2 ^ bits)

RECURSIVE DecodeColumn(_, _, _, _, _, _)
\* values j..n of a channel, the value before them being prevbyte
DecodeColumn(data, p, bits, j, n, prevbyte) ==
    IF j > n THEN <<>>
    ELSE LET v == (prevbyte + UnpackDelta(data, p, bits, j)) % 256 IN
         <<v>> \o DecodeColumn(data, p, bits, j + 1, n, v)

RECURSIVE DecodeChannels(_, _, _, _, _, _)
\* channels k..vertex_size of a block of n records: their columns, and the
\* position after them
DecodeChannels(data, p, vertex_size, n, prev, k) ==
    IF k > vertex_size THEN [cols |-> <<>>, p |-> p]
    ELSE LET bits == kBitsLadder[(ReadByte(data, p) % 4) + 1]
             col == DecodeColumn(data, p + 1, bits, 1, n, prev[k])
             rest == DecodeChannels(data, p + 1 + PackedLen(n, bits),
                                    vertex_size, n, prev, k + 1)
         IN [cols |-> <<col>> \o rest.cols, p |-> rest.p]

RECURSIVE DecodeBlocks(_, _, _, _, _)
\* the records still to decode, as flat bytes
DecodeBlocks(data, p, vertex_size, remaining, prev) ==
    IF remaining = 0 THEN <<>>
    ELSE LET n == Min(kVertexBlockSize, remaining)
             ch == DecodeChannels(data, p, vertex_size, n, prev, 1)
             flat == [i \in 1..(n * vertex_size) |->
                        ch.cols[((i - 1) % vertex_size) + 1][((i - 1) \div vertex_size) + 1]]
         IN flat \o DecodeBlocks(data, ch.p, vertex_size, remaining - n,
                                 [k \in 1..vertex_size |-> ch.cols[k][n]])

\* meshopt_decodeVertexBuffer(destination, vertex_count, vertex_size, buffer, buffer_size):
\* the destination after the call and the result code (0: success)
meshopt_decodeVertexBuffer(destination, vertex_count, vertex_size, buffer) ==
    IF Len(buffer) < 1 \/ buffer[1] # kVertexHeader
    THEN [destination |-> destination, code |-> -1]
    ELSE LET out == DecodeBlocks(buffer, 2, vertex_size, vertex_count,
                                 Fill(vertex_size, 0))
         IN [destination |->
                [k \in 1..Len(destination) |->
                    IF k <= Len(out) THEN out[k] ELSE destination[k]],
             code |-> 0]

----------------------------------------------------------------------------
(* crate::error_or, after section 7: a non-zero result code becomes a      *)
(* typed error that carries no output, zero hands the value on.            *)

NoReturn == [kind |-> "none", value |-> <<>>, code |-> 0]

Ok(value) == [kind |-> "Ok", value |-> value, code |-> 0]

Err(code) == [kind |-> "Err", value |-> <<>>, code |-> code]

\* an assert! that failed: the call unwinds, nothing is returned
Panic == [kind |-> "Panic", value |-> <<>>, code |-> 0]

error_or(result_code, result) ==
    IF result_code # 0 THEN Err(result_code) ELSE Ok(result)

----------------------------------------------------------------------------
(* State of one call: the function entered (fn), its arguments (arg), its  *)
(* locals (loc), the point reached in its body (pc) and what it returned   *)
(* (ret).  src remembers the input whose encoding a decode call was given. *)

NoArg == [indices |-> <<>>, vertex_count |-> 0, vertices |-> <<>>, count |-> 0,
          size_of |-> 0, encoded |-> <<>>, positions |-> <<>>]

NoLoc == [bounds |-> 0, result |-> <<>>, size |-> 0, result_code |-> 0,
          allocated |-> FALSE, decoded |-> FALSE,
          offset |-> <<>>, scale |-> <<>>]

NoSrc == [valid |-> FALSE, data |-> <<>>]

Enter(f, a, s, at) ==
    /\ fn' = f
    /\ arg' = a
    /\ src' = s
    /\ loc' = NoLoc
    /\ ret' = NoReturn
    /\ pc' = at

\* the triangles index lists are built from: every triangle with three distinct
\* corners among vertices 0..3 (so neighbours across an edge in both windings,
\* repeats and rotations, and the scenario's two), and some degenerate ones
TriangleSamples ==
    {t \in [1..3 -> 0..3] : t[1] # t[2] /\ t[2] # t[3] /\ t[1] # t[3]}
    \cup {<<0, 0, 0>>, <<1, 1, 2>>, <<3, 0, 3>>, <<2, 3, 3>>, <<3, 3, 3>>, <<0, 1, 0>>}

RECURSIVE TriangleLists(_, _)
\* the lists of exactly n triangles drawn from T
TriangleLists(T, n) ==
    IF n = 0 THEN {<<>>}
    ELSE {l \o t : l \in TriangleLists(T, n - 1), t \in T}

\* the valid index lists: whole triangles, every value < vertex_count
IndexLists(vertex_count) ==
    LET T == {t \in TriangleSamples : \A k \in 1..3 : t[k] < vertex_count}
    IN UNION {TriangleLists(T, n) : n \in 0..MaxTriangles}

----------------------------------------------------------------------------
(* encode_index_buffer(indices, vertex_count)                              *)

CallEncodeIndex ==
    /\ pc = "idle"
    /\ \E vertex_count \in VertexCounts : \E indices \in IndexLists(vertex_count) :
          Enter("encode_index_buffer",
                [NoArg EXCEPT !.indices = indices, !.vertex_count = vertex_count],
                NoSrc, "eib_bound")

\* let bounds = meshopt_encodeIndexBufferBound(..); let mut result = vec![0; bounds];
EncodeIndexBound ==
    /\ pc = "eib_bound"
    /\ LET bounds == meshopt_encodeIndexBufferBound(Len(arg.indices), arg.vertex_count)
       IN loc' = [loc EXCEPT !.bounds = bounds, !.result = Fill(bounds, 0),
                             !.allocated = TRUE]
    /\ pc' = "eib_encode"
    /\ UNCHANGED <<fn, arg, ret, src>>

\* let size = meshopt_encodeIndexBuffer(result.as_mut_ptr(), result.len(), ..);
EncodeIndexEncode ==
    /\ pc = "eib_encode"
    /\ LET r == meshopt_encodeIndexBuffer(loc.result, Len(loc.result), arg.indices)
       IN loc' = [loc EXCEPT !.result = r.buffer, !.size = r.size]
    /\ pc' = "eib_resize"
    /\ UNCHANGED <<fn, arg, ret, src>>

\* the resize left out: the whole buffer of `bounds` bytes is returned
encode_index_buffer_return_unresized(result, size) == Ok(result)

\* result.resize(size, 0u8); Ok(result)
encode_index_buffer_return(result, size) == Ok(Resize(result, size, 0))

EncodeIndexReturn ==
    /\ pc = "eib_resize"
    /\ ret' = encode_index_buffer_return(loc.result, loc.size)
    /\ pc' = "done"
    /\ UNCHANGED <<fn, arg, loc, src>>

----------------------------------------------------------------------------
(* decode_index_buffer::<T>(encoded, index_count), size_of::<T>() = size_of *)

\* the caller decodes what encode_index_buffer just returned, with its index count
CallDecodeIndexOfEncoded ==
    /\ pc = "done"
    /\ fn = "encode_index_buffer"
    /\ ret.kind = "Ok"
    /\ \E size_of \in {2, 4} :
          Enter("decode_index_buffer",
                [NoArg EXCEPT !.encoded = ret.value, !.count = Len(arg.indices),
                              !.size_of = size_of],
                [valid |-> TRUE, data |-> arg.indices], "dib_assert")

\* the caller decodes bytes of unknown origin
CallDecodeIndex ==
    /\ pc = "idle"
    /\ \E encoded \in SeqsUpTo(BlobSamples, MaxBlobLen) :
       \E count \in 0..MaxCount : \E size_of \in IndexWidths :
          Enter("decode_index_buffer",
                [NoArg EXCEPT !.encoded = encoded, !.count = count,
                              !.size_of = size_of],
                NoSrc, "dib_assert")

\* the check widened to 8-byte elements
assert_valid_size_or_8(size_of) == size_of = 2 \/ size_of = 4 \/ size_of = 8

\* assert!(mem::size_of::<T>() == 2 || mem::size_of::<T>() == 4, ..)
assert_valid_size(size_of) == size_of = 2 \/ size_of = 4

DecodeIndexAssert ==
    /\ pc = "dib_assert"
    /\ IF assert_valid_size(arg.size_of)
       THEN pc' = "dib_alloc" /\ ret' = ret
       ELSE pc' = "done" /\ ret' = Panic
    /\ UNCHANGED <<fn, arg, loc, src>>

\* Vec::with_capacity(index_count) instead of vec![..; index_count]: room for
\* the indices, but a vector of length 0
decode_index_buffer_alloc_with_capacity(index_count) == <<>>

\* let mut result: Vec<T> = vec![Default::default(); index_count];
decode_index_buffer_alloc(index_count) == Fill(index_count, 0)

DecodeIndexAlloc ==
    /\ pc = "dib_alloc"
    /\ loc' = [loc EXCEPT !.result = decode_index_buffer_alloc(arg.count),
                          !.allocated = TRUE]
    /\ pc' = "dib_decode"
    /\ UNCHANGED <<fn, arg, ret, src>>

\* let result_code = meshopt_decodeIndexBuffer(result.as_mut_ptr().cast(),
\*     index_count, size_of::<T>(), encoded.as_ptr(), encoded.len());
DecodeIndexDecode ==
    /\ pc = "dib_decode"
    /\ LET r == meshopt_decodeIndexBuffer(loc.result, arg.count, arg.size_of,
                                          arg.encoded)
       IN loc' = [loc EXCEPT !.result = r.destination, !.result_code = r.code,
                             !.decoded = TRUE]
    /\ pc' = "dib_return"
    /\ UNCHANGED <<fn, arg, ret, src>>

\* the result code dropped: Ok(result) whatever the decoder reported
decode_index_buffer_return_unchecked(result_code, result) == Ok(result)

\* error_or(result_code, result)
decode_index_buffer_return(result_code, result) == error_or(result_code, result)

DecodeIndexReturn ==
    /\ pc = "dib_return"
    /\ ret' = decode_index_buffer_return(loc.result_code, loc.result)
    /\ pc' = "done"
    /\ UNCHANGED <<fn, arg, loc, src>>

----------------------------------------------------------------------------
(* encode_vertex_buffer::<T>(vertices), size_of::<T>() = size_of            *)

\* record widths the model tries
RecordWidths == {1, 2}

\* the record streams: count records of size_of bytes each, as flat bytes
VertexStreams(size_of) ==
    UNION {SeqsOfLen(ByteSamples, n * size_of) : n \in 0..MaxRecords}

CallEncodeVertex ==
    /\ pc = "idle"
    /\ \E size_of \in RecordWidths : \E vertices \in VertexStreams(size_of) :
          Enter("encode_vertex_buffer",
                [NoArg EXCEPT !.vertices = vertices, !.size_of = size_of,
                              !.count = Len(vertices) \div size_of],
                NoSrc, "evb_bound")

\* let bounds = meshopt_encodeVertexBufferBound(vertices.len(), size_of::<T>());
\* let mut result = vec![0; bounds];
EncodeVertexBound ==
    /\ pc = "evb_bound"
    /\ LET bounds == meshopt_encodeVertexBufferBound(arg.count, arg.size_of)
       IN loc' = [loc EXCEPT !.bounds = bounds, !.result = Fill(bounds, 0),
                             !.allocated = TRUE]
    /\ pc' = "evb_encode"
    /\ UNCHANGED <<fn, arg, ret, src>>

\* let size = meshopt_encodeVertexBuffer(result.as_mut_ptr(), result.len(), ..);
EncodeVertexEncode ==
    /\ pc = "evb_encode"
    /\ LET r == meshopt_encodeVertexBuffer(loc.result, Len(loc.result),
                                           arg.vertices, arg.count, arg.size_of)
       IN loc' = [loc EXCEPT !.result = r.buffer, !.size = r.size]
    /\ pc' = "evb_resize"
    /\ UNCHANGED <<fn, arg, ret, src>>

\* result.resize(size, 0u8); Ok(result)
encode_vertex_buffer_return(result, size) == Ok(Resize(result, size, 0))

EncodeVertexReturn ==
    /\ pc = "evb_resize"
    /\ ret' = encode_vertex_buffer_return(loc.result, loc.size)
    /\ pc' = "done"
    /\ UNCHANGED <<fn, arg, loc, src>>

----------------------------------------------------------------------------
(* decode_vertex_buffer::<T>(encoded, vertex_count)                        *)

\* the caller decodes what encode_vertex_buffer just returned, with the same
\* element type and the stream's record count
CallDecodeVertexOfEncoded ==
    /\ pc = "done"
    /\ fn = "encode_vertex_buffer"
    /\ ret.kind = "Ok"
    /\ Enter("decode_vertex_buffer",
             [NoArg EXCEPT !.encoded = ret.value, !.count = arg.count,
                           !.size_of = arg.size_of],
             [valid |-> TRUE, data |-> arg.vertices], "dvb_alloc")

\* the caller decodes bytes of unknown origin
CallDecodeVertex ==
    /\ pc = "idle"
    /\ \E encoded \in SeqsUpTo(BlobSamples, MaxBlobLen) :
       \E count \in 0..MaxCount : \E size_of \in RecordWidths :
          Enter("decode_vertex_buffer",
                [NoArg EXCEPT !.encoded = encoded, !.count = count,
                              !.size_of = size_of],
                NoSrc, "dvb_alloc")

\* let mut result: Vec<T> = vec![Default::default(); vertex_count];
decode_vertex_buffer_alloc(vertex_count, size_of) == Fill(vertex_count * size_of, 0)

DecodeVertexAlloc ==
    /\ pc = "dvb_alloc"
    /\ loc' = [loc EXCEPT !.result = decode_vertex_buffer_alloc(arg.count, arg.size_of),
                          !.allocated = TRUE]
    /\ pc' = "dvb_decode"
    /\ UNCHANGED <<fn, arg, ret, src>>

\* vertex_count and size_of::<T>() passed in each other's place
decode_vertex_buffer_call_swapped(result, vertex_count, size_of, encoded) ==
    meshopt_decodeVertexBuffer(result, size_of, vertex_count, encoded)

\* meshopt_decodeVertexBuffer(result.as_mut_ptr(), vertex_count,
\*     size_of::<T>(), encoded.as_ptr(), encoded.len())
decode_vertex_buffer_call(result, vertex_count, size_of, encoded) ==
    meshopt_decodeVertexBuffer(result, vertex_count, size_of, encoded)

\* let result_code = meshopt_decodeVertexBuffer(..);
DecodeVertexDecode ==
    /\ pc = "dvb_decode"
    /\ LET r == decode_vertex_buffer_call(loc.result, arg.count, arg.size_of,
                                         arg.encoded)
       IN loc' = [loc EXCEPT !.result = r.destination, !.result_code = r.code,
                             !.decoded = TRUE]
    /\ pc' = "dvb_return"
    /\ UNCHANGED <<fn, arg, ret, src>>

\* error_or(result_code, result)
DecodeVertexReturn ==
    /\ pc = "dvb_return"
    /\ ret' = error_or(loc.result_code, loc.result)
    /\ pc' = "done"
    /\ UNCHANGED <<fn, arg, loc, src>>

----------------------------------------------------------------------------
(* Quantization helpers.  An f32 is modelled by an integer counting halves *)
(* (1.0 is 2), over a range in which min, max and subtraction are exact.   *)

\* std::f32::MAX, the seed of the folds: above every value and difference here
MAX == 2147483647
\* component values the position lists are built from
PosSamples == {-2, 0, 3}
\* component values the UV lists are built from (0.0, 0.5, 1.0, 2.0)
UVSamples == {0, 1, 2, 4}

\* slice.chunks(n): the number of chunks, the last one possibly shorter
NumChunks(s, n) == (Len(s) + n - 1) \div n

\* slice.chunks(n): chunk i (1-based)
Chunk(s, n, i) == SubSeq(s, (i - 1) * n + 1, Min(i * n, Len(s)))

\* crate::utilities::rcp_safe, after section 4.3: 0 for 0, else the reciprocal,
\* kept as the fraction num/den
rcp_safe(v) == IF v = 0 THEN [num |-> 0, den |-> 1] ELSE [num |-> 1, den |-> v]

RECURSIVE pos_offset_fold(_, _, _)
\* positions.chunks(3).fold([MAX, MAX, MAX], |result, position| [result[k].min(position[k])])
\* from chunk i on; indexing a short chunk panics
pos_offset_fold(positions, i, result) ==
    IF i > NumChunks(positions, 3) THEN [panic |-> FALSE, value |-> result]
    ELSE LET position == Chunk(positions, 3, i) IN
         IF Len(position) < 3 THEN [panic |-> TRUE, value |-> result]
         ELSE pos_offset_fold(positions, i + 1,
                              <<Min(result[1], position[1]),
                                Min(result[2], position[2]),
                                Min(result[3], position[3])>>)

\* chunks_exact(3) instead of chunks(3): a trailing partial point is skipped
pos_offset_chunks_exact(positions) ==
    pos_offset_fold(SubSeq(positions, 1, 3 * (Len(positions) \div 3)), 1,
                    <<MAX, MAX, MAX>>)

pos_offset(positions) == pos_offset_fold(positions, 1, <<MAX, MAX, MAX>>)

RECURSIVE pos_scale_fold(_, _, _, _)
\* positions.chunks(3).fold(0f32, |result, position| result.max(position[0] - pos_offset[0])
\*     .max(position[1] - pos_offset[1]).max(position[2] - pos_offset[2]))
pos_scale_fold(positions, offset, i, result) ==
    IF i > NumChunks(positions, 3) THEN [panic |-> FALSE, value |-> result]
    ELSE LET position == Chunk(positions, 3, i) IN
         IF Len(position) < 3 THEN [panic |-> TRUE, value |-> result]
         ELSE pos_scale_fold(positions, offset, i + 1,
                             Max(Max(Max(result, position[1] - offset[1]),
                                     position[2] - offset[2]),
                                 position[3] - offset[3]))

\* the scale fold seeded with MAX, as the UV fold is
pos_scale_seeded_max(positions, offset) == pos_scale_fold(positions, offset, 1, MAX)

pos_scale(positions, offset) == pos_scale_fold(positions, offset, 1, 0)

RECURSIVE uv_offset_fold(_, _, _)
\* coords.chunks(2).fold([MAX, MAX], |result, coord| [result[k].min(coord[k])])
uv_offset_fold(coords, i, result) ==
    IF i > NumChunks(coords, 2) THEN [panic |-> FALSE, value |-> result]
    ELSE LET coord == Chunk(coords, 2, i) IN
         IF Len(coord) < 2 THEN [panic |-> TRUE, value |-> result]
         ELSE uv_offset_fold(coords, i + 1,
                             <<Min(result[1], coord[1]), Min(result[2], coord[2])>>)

uv_offset(coords) == uv_offset_fold(coords, 1, <<MAX, MAX>>)

RECURSIVE uv_scale_fold(_, _, _, _)
\* coords.chunks(2).fold([MAX, MAX], |result, coord| [result[k].max(coord[k] - uv_offset[k])])
uv_scale_fold(coords, offset, i, result) ==
    IF i > NumChunks(coords, 2) THEN [panic |-> FALSE, value |-> result]
    ELSE LET coord == Chunk(coords, 2, i) IN
         IF Len(coord) < 2 THEN [panic |-> TRUE, value |-> result]
         ELSE uv_scale_fold(coords, offset, i + 1,
                            <<Max(result[1], coord[1] - offset[1]),
                              Max(result[2], coord[2] - offset[2])>>)

uv_scale(coords, offset) == uv_scale_fold(coords, offset, 1, <<MAX, MAX>>)

----------------------------------------------------------------------------
(* calc_pos_offset_and_scale(positions) and                                *)
(* calc_pos_offset_and_scale_inverse(positions), which calls it            *)

CallCalcPos ==
    /\ pc = "idle"
    /\ \E f \in {"calc_pos_offset_and_scale", "calc_pos_offset_and_scale_inverse"} :
       \E positions \in SeqsUpTo(PosSamples, 3 * MaxPoints) :
          Enter(f, [NoArg EXCEPT !.positions = positions], NoSrc, "pos_offset")

\* let pos_offset = positions.chunks(3).fold(..);
PosOffsetPass ==
    /\ pc = "pos_offset"
    /\ LET r == pos_offset(arg.positions) IN
       IF r.panic
       THEN pc' = "done" /\ ret' = Panic /\ loc' = loc
       ELSE pc' = "pos_scale" /\ ret' = ret /\ loc' = [loc EXCEPT !.offset = r.value]
    /\ UNCHANGED <<fn, arg, src>>

\* let pos_scale = positions.chunks(3).fold(..);
PosScalePass ==
    /\ pc = "pos_scale"
    /\ LET r == pos_scale(arg.positions, loc.offset) IN
       IF r.panic
       THEN pc' = "done" /\ ret' = Panic /\ loc' = loc
       ELSE pc' = "pos_return" /\ ret' = ret /\ loc' = [loc EXCEPT !.scale = r.value]
    /\ UNCHANGED <<fn, arg, src>>

\* (pos_offset, pos_scale)
PosReturn ==
    /\ pc = "pos_return"
    /\ fn = "calc_pos_offset_and_scale"
    /\ ret' = Ok(<<loc.offset, loc.scale>>)
    /\ pc' = "done"
    /\ UNCHANGED <<fn, arg, loc, src>>

\* 1.0 / pos_scale instead of rcp_safe(pos_scale)
calc_pos_offset_and_scale_inverse_return_unsafe(offset, scale) ==
    Ok(<<offset, [num |-> 1, den |-> scale]>>)

\* let pos_scale_inverse = rcp_safe(pos_scale); (pos_offset, pos_scale_inverse)
calc_pos_offset_and_scale_inverse_return(offset, scale) ==
    Ok(<<offset, rcp_safe(scale)>>)

PosInverseReturn ==
    /\ pc = "pos_return"
    /\ fn = "calc_pos_offset_and_scale_inverse"
    /\ ret' = calc_pos_offset_and_scale_inverse_return(loc.offset, loc.scale)
    /\ pc' = "done"
    /\ UNCHANGED <<fn, arg, loc, src>>

----------------------------------------------------------------------------
(* calc_uv_offset_and_scale(coords) and                                    *)
(* calc_uv_offset_and_scale_inverse(coords), which calls it                *)

CallCalcUV ==
    /\ pc = "idle"
    /\ \E f \in {"calc_uv_offset_and_scale", "calc_uv_offset_and_scale_inverse"} :
       \E coords \in SeqsUpTo(UVSamples, 2 * MaxCoords) :
          Enter(f, [NoArg EXCEPT !.positions = coords], NoSrc, "uv_offset")

\* let uv_offset = coords.chunks(2).fold(..);
UVOffsetPass ==
    /\ pc = "uv_offset"
    /\ LET r == uv_offset(arg.positions) IN
       IF r.panic
       THEN pc' = "done" /\ ret' = Panic /\ loc' = loc
       ELSE pc' = "uv_scale" /\ ret' = ret /\ loc' = [loc EXCEPT !.offset = r.value]
    /\ UNCHANGED <<fn, arg, src>>

\* let uv_scale = coords.chunks(2).fold(..);
UVScalePass ==
    /\ pc = "uv_scale"
    /\ LET r == uv_scale(arg.positions, loc.offset) IN
       IF r.panic
       THEN pc' = "done" /\ ret' = Panic /\ loc' = loc
       ELSE pc' = "uv_return" /\ ret' = ret /\ loc' = [loc EXCEPT !.scale = r.value]
    /\ UNCHANGED <<fn, arg, src>>

\* (uv_offset, uv_scale)
UVReturn ==
    /\ pc = "uv_return"
    /\ fn = "calc_uv_offset_and_scale"
    /\ ret' = Ok(<<loc.offset, loc.scale>>)
    /\ pc' = "done"
    /\ UNCHANGED <<fn, arg, loc, src>>

\* let uv_scale_inverse = [rcp_safe(uv_scale[0]), rcp_safe(uv_scale[1])];
\* (uv_offset, uv_scale_inverse)
calc_uv_offset_and_scale_inverse_return(offset, scale) ==
    Ok(<<offset, <<rcp_safe(scale[1]), rcp_safe(scale[2])>>>>)

UVInverseReturn ==
    /\ pc = "uv_return"
    /\ fn = "calc_uv_offset_and_scale_inverse"
    /\ ret' = calc_uv_offset_and_scale_inverse_return(loc.offset, loc.scale)
    /\ pc' = "done"
    /\ UNCHANGED <<fn, arg, loc, src>>

----------------------------------------------------------------------------
(* The caller takes the returned value; the call's state is gone.          *)

Return ==
    /\ pc = "done"
    /\ Enter("none", NoArg, NoSrc, "idle")

Init ==
    /\ pc = "idle"
    /\ fn = "none"
    /\ arg = NoArg
    /\ loc = NoLoc
    /\ ret = NoReturn
    /\ src = NoSrc

Next ==
    \/ CallEncodeIndex
    \/ EncodeIndexBound
    \/ EncodeIndexEncode
    \/ EncodeIndexReturn
    \/ CallDecodeIndexOfEncoded
    \/ CallDecodeIndex
    \/ DecodeIndexAssert
    \/ DecodeIndexAlloc
    \/ DecodeIndexDecode
    \/ DecodeIndexReturn
    \/ CallEncodeVertex
    \/ EncodeVertexBound
    \/ EncodeVertexEncode
    \/ EncodeVertexReturn
    \/ CallDecodeVertexOfEncoded
    \/ CallDecodeVertex
    \/ DecodeVertexAlloc
    \/ DecodeVertexDecode
    \/ DecodeVertexReturn
    \/ Return

Spec == Init /\ [][Next]_vars

NextQuant ==
    \/ CallCalcPos
    \/ PosOffsetPass
    \/ PosScalePass
    \/ PosReturn
    \/ PosInverseReturn
    \/ CallCalcUV
    \/ UVOffsetPass
    \/ UVScalePass
    \/ UVReturn
    \/ UVInverseReturn
    \/ Return

SpecQuant == Init /\ [][NextQuant]_vars

----------------------------------------------------------------------------
(* Properties.                                                             *)

\* a returned call of function f
Returned(f) == pc = "done" /\ fn = f

\* C1: decoding, as 4-byte indices and with the list's own length as count, the
\* bytes encode_index_buffer returned for a valid index list gives Ok with
\* exactly that list
C1_IndexRoundTrip ==
    (Returned("decode_index_buffer") /\ src.valid /\ arg.size_of = 4)
        => ret = Ok(src.data)

\* the scenario: [0,1,2, 1,2,3] has been encoded and decoded again
C1_Witness ==
    /\ Returned("decode_index_buffer")
    /\ src.valid
    /\ arg.size_of = 4
    /\ src.data = <<0, 1, 2, 1, 2, 3>>
    /\ ret.kind = "Ok"
    /\ ret.value = <<0, 1, 2, 1, 2, 3>>

\* C2: decoding, with the same element type and the stream's record count, the
\* bytes encode_vertex_buffer returned for a record stream gives Ok with
\* exactly that stream
C2_VertexRoundTrip ==
    (Returned("decode_vertex_buffer") /\ src.valid) => ret = Ok(src.data)

\* a stream of three 2-byte records, spanning two blocks, with a wrapping
\* delta, has been encoded and decoded again
C2_Witness ==
    /\ Returned("decode_vertex_buffer")
    /\ src.valid
    /\ arg.size_of = 2
    /\ src.data = <<255, 0, 1, 255, 0, 1>>
    /\ ret.kind = "Ok"
    /\ ret.value = src.data

\* the bound query matching an encode call
BoundQuery ==
    IF fn = "encode_index_buffer"
    THEN meshopt_encodeIndexBufferBound(Len(arg.indices), arg.vertex_count)
    ELSE meshopt_encodeVertexBufferBound(arg.count, arg.size_of)

\* C3: an encoder returns Ok with the bytes the codec wrote and nothing else:
\* their number is the size the codec reported, it is at most the bound query
\* for the same counts, and the buffer was allocated at that bound, so the
\* resize truncates and never grows
C3_BoundSafety ==
    ((Returned("encode_index_buffer") \/ Returned("encode_vertex_buffer")))
        => /\ ret.kind = "Ok"
           /\ Len(loc.result) = BoundQuery
           /\ loc.size <= Len(loc.result)
           /\ Len(ret.value) = loc.size
           /\ ret.value = SubSeq(loc.result, 1, loc.size)
           /\ Len(ret.value) <= BoundQuery

\* an encode call returned fewer bytes than the bound it allocated
C3_Witness ==
    /\ Returned("encode_index_buffer")
    /\ Len(arg.indices) = 6
    /\ ret.kind = "Ok"
    /\ Len(ret.value) > 1
    /\ Len(ret.value) < Len(loc.result)

\* number of bytes of a decoded vector of `count` elements
DecodedLen ==
    IF fn = "decode_index_buffer" THEN arg.count ELSE arg.count * arg.size_of

\* C4: a decode call that got past the element width check returns, for any
\* bytes and any count, either an error without output (non-zero result code)
\* or Ok with a vector of exactly `count` elements
C4_DecodeAllOrNothing ==
    (/\ Returned("decode_index_buffer") \/ Returned("decode_vertex_buffer")
     /\ ret.kind # "Panic")
        => \/ /\ loc.result_code # 0
              /\ ret.kind = "Err"
              /\ ret.code = loc.result_code
              /\ ret.value = <<>>
           \/ /\ loc.result_code = 0
              /\ ret.kind = "Ok"
              /\ Len(ret.value) = DecodedLen

\* bytes of unknown origin that end before the triangles they announce were
\* decoded to a full vector, and bytes without the format tag were refused
C4_Witness ==
    /\ Returned("decode_index_buffer")
    /\ ~src.valid
    /\ arg.count = 3
    /\ arg.encoded = <<kIndexHeader, 255>>
    /\ ret.kind = "Ok"
    /\ Len(ret.value) = 3

\* C5: with an element width other than 2 or 4, decode_index_buffer stops at
\* the width check: no vector is allocated, the decoder is not called (the
\* encoded bytes are not read) and nothing is returned, whatever the bytes and
\* the count
C5_WidthRejectedFirst ==
    (fn = "decode_index_buffer" /\ arg.size_of \notin {2, 4} /\ pc # "dib_assert")
        => /\ pc = "done"
           /\ ret = Panic
           /\ ~loc.allocated
           /\ ~loc.decoded
           /\ loc.result = <<>>

\* a call with 8-byte elements and well-formed bytes was rejected
C5_Witness ==
    /\ Returned("decode_index_buffer")
    /\ arg.size_of = 8
    /\ arg.count = 3
    /\ Len(arg.encoded) > 0
    /\ arg.encoded[1] = kIndexHeader
    /\ ret = Panic

----------------------------------------------------------------------------
(* Properties of the quantization helpers, stated over the points of the   *)
(* argument and not over the folds.                                        *)

\* the whole n-component points of a flat list
Points(flat, n) == {SubSeq(flat, (i - 1) * n + 1, i * n) : i \in 1..(Len(flat) \div n)}

\* a non-empty list of whole n-component points
WholePoints(flat, n) == Len(flat) > 0 /\ Len(flat) % n = 0

SetMin(S) == CHOOSE x \in S : \A y \in S : x <= y

SetMax(S) == CHOOSE x \in S : \A y \in S : x >= y

\* the minimum of axis a over the points
AxisMin(flat, n, a) == SetMin({p[a] : p \in Points(flat, n)})

\* the maximum of axis a over the points
AxisMax(flat, n, a) == SetMax({p[a] : p \in Points(flat, n)})

\* C6: for a non-empty list of whole points, the offset is the per-axis
\* minimum (so offset[a] <= p[a]) and the scale is at least every
\* p[a] - offset[a], with equality for some point and axis
C6_PosOffsetScale ==
    (Returned("calc_pos_offset_and_scale") /\ WholePoints(arg.positions, 3))
        => /\ ret.kind = "Ok"
           /\ LET offset == ret.value[1]
                  scale == ret.value[2]
                  P == Points(arg.positions, 3)
              IN /\ \A a \in 1..3 : offset[a] = AxisMin(arg.positions, 3, a)
                 /\ \A p \in P : \A a \in 1..3 :
                        offset[a] <= p[a] /\ scale >= p[a] - offset[a]
                 /\ \E p \in P : \E a \in 1..3 : scale = p[a] - offset[a]

\* two points whose largest extent is on the second axis
C6_Witness ==
    /\ Returned("calc_pos_offset_and_scale")
    /\ arg.positions = <<0, 3, -2, 0, -2, 0>>
    /\ ret = Ok(<<(<<0, -2, -2>>), 5>>)

\* C7: for a non-empty list of whole coordinates, offset[a] is the minimum of
\* axis a and scale[a] is the maximum of c[a] - offset[a], per axis
C7_UVOffsetScale ==
    (Returned("calc_uv_offset_and_scale") /\ WholePoints(arg.positions, 2))
        => /\ ret.kind = "Ok"
           /\ \A a \in 1..2 :
                /\ ret.value[1][a] = AxisMin(arg.positions, 2, a)
                /\ ret.value[2][a] = AxisMax(arg.positions, 2, a)
                                        - AxisMin(arg.positions, 2, a)

\* the fraction 1/v
Reciprocal(r, v) == r.den # 0 /\ r.num * v = r.den

\* the fraction 0
Zero(r) == r.den # 0 /\ r.num = 0

\* the largest p[a] - min of axis a, over all points and axes
PosExtent(flat) ==
    SetMax({AxisMax(flat, 3, a) - AxisMin(flat, 3, a) : a \in 1..3})

\* C8: for a non-empty list of whole points, the inverse variant returns the
\* offset of calc_pos_offset_and_scale (the per-axis minimum) and, for the
\* scale s of that function (the largest extent), 0 when s = 0 and 1/s when
\* s > 0: a finite number in both cases
C8_PosSafeReciprocal ==
    (Returned("calc_pos_offset_and_scale_inverse") /\ WholePoints(arg.positions, 3))
        => /\ ret.kind = "Ok"
           /\ ret.value[1] = loc.offset
           /\ \A a \in 1..3 : ret.value[1][a] = AxisMin(arg.positions, 3, a)
           /\ loc.scale = PosExtent(arg.positions)
           /\ ret.value[2].den # 0
           /\ PosExtent(arg.positions) = 0 => Zero(ret.value[2])
           /\ PosExtent(arg.positions) > 0
                => Reciprocal(ret.value[2], PosExtent(arg.positions))

\* a single point (zero extent) gave 0
C8_Witness ==
    /\ Returned("calc_pos_offset_and_scale_inverse")
    /\ arg.positions = <<3, 0, -2>>
    /\ ret.kind = "Ok"
    /\ ret.value[1] = <<3, 0, -2>>
    /\ Zero(ret.value[2])

\* C9: for a non-empty list of whole coordinates and each axis a,
\* scale_inverse[a] is 0 when every coordinate has the same value on a and
\* 1 / (max of a - min of a) otherwise
C9_UVSafeReciprocal ==
    (Returned("calc_uv_offset_and_scale_inverse") /\ WholePoints(arg.positions, 2))
        => /\ ret.kind = "Ok"
           /\ \A a \in 1..2 :
                LET extent == AxisMax(arg.positions, 2, a) - AxisMin(arg.positions, 2, a)
                IN IF extent = 0 THEN Zero(ret.value[2][a])
                   ELSE Reciprocal(ret.value[2][a], extent)

\* C10: calc_pos_offset_and_scale returns a value exactly when the length is a
\* multiple of 3; otherwise the call panics in the offset pass (no offset and
\* no scale were produced); the empty list returns the seeds
C10_PosPartialPointPanics ==
    Returned("calc_pos_offset_and_scale")
        => /\ (ret.kind = "Ok") <=> (Len(arg.positions) % 3 = 0)
           /\ Len(arg.positions) % 3 # 0
                => ret = Panic /\ loc.offset = <<>> /\ loc.scale = <<>>
           /\ arg.positions = <<>> => ret = Ok(<<(<<MAX, MAX, MAX>>), 0>>)

\* a whole point followed by two components of a second one panicked
C10_Witness ==
    /\ Returned("calc_pos_offset_and_scale")
    /\ Len(arg.positions) = 5
    /\ ret = Panic

====
